---- MODULE Spec2Model ----
(***************************************************************************)
(* The tool-invocation adapter (toToolDefinitions, toClientToolDefinitions *)
(* of src/agents/pi-tool-definition-adapter.ts) and the forked-run         *)
(* launcher (runPluginAgentTurn) as a state machine.                       *)
(*                                                                         *)
(* A JavaScript string is a sequence of tokens (a token is a TLA+ string); *)
(* the token " " is whitespace, so trim(), truthiness ("" is falsy) and    *)
(* concatenation are computed on sequences.  An optional value is a       *)
(* sequence of length 0 (undefined) or 1.  A parameter object is a set of  *)
(* <<key, value>> pairs.  An async function is one action per segment      *)
(* between its awaits.                                                     *)
(***************************************************************************)
EXTENDS Integers, Sequences, FiniteSets, TLC

VARIABLES hookRunner, calls, launches, uuidsIssued

vars == <<hookRunner, calls, launches, uuidsIssued>>

-----------------------------------------------------------------------------
(* Bounds of the model *)

\* Number of call slots of the tool adapter.
MaxCalls == 2
\* Longest failure message, in tokens.
MaxMsgLen == 1

\* Number of launch slots of the forked-run launcher.
MaxLaunches == 2
\* Number of launches in one behaviour.
MaxRuns == 2
\* Longest list of output payloads of a turn.
MaxPayloads == 2
\* Largest timeoutMs of a request, in half seconds.
MaxHalfSeconds == 3
\* Longest list of output payloads where only the response texts are followed.
MaxTexts == 3

CallIds == 1..MaxCalls
LaunchIds == 1..MaxLaunches

-----------------------------------------------------------------------------
(* JavaScript strings *)

Space == " "
AtLine == "\n    at "

IsBlank(s) == \A i \in DOMAIN s : s[i] = Space

\* String.prototype.trim()
RECURSIVE TrimLeft(_)
TrimLeft(s) == IF s # <<>> /\ Head(s) = Space THEN TrimLeft(Tail(s)) ELSE s

RECURSIVE TrimRight(_)
TrimRight(s) ==
    IF s # <<>> /\ s[Len(s)] = Space THEN TrimRight(SubSeq(s, 1, Len(s) - 1)) ELSE s

Trim(s) == TrimRight(TrimLeft(s))

\* "" is the only falsy string
Truthy(s) == s # <<>>

Contains(s, tok) == \E i \in DOMAIN s : s[i] = tok

MsgTokens == {"nope", Space}

Messages == UNION {[1..n -> MsgTokens] : n \in 0..MaxMsgLen}

-----------------------------------------------------------------------------
(* Thrown values *)

\* new Error(message) with the given name; stack is undefined (<<>>), the
\* message itself, or the engine's "name: message\n    at ..." text.
ErrorToString(name, message) ==
    IF name = <<>> THEN message
    ELSE IF message = <<>> THEN name
    ELSE name \o <<": ">> \o message

MkError(name, message, stackKind) ==
    [kind |-> "Error", name |-> name, message |-> message,
     stack |-> CASE stackKind = "none" -> <<>>
                 [] stackKind = "message" -> <<message>>
                 [] OTHER -> <<ErrorToString(name, message) \o <<AtLine>>>>]

ErrorNames == {<<"Error">>, <<"AbortError">>}

ErrorObjects ==
    {MkError(n, m, k) : n \in ErrorNames, m \in Messages,
                        k \in {"none", "message", "trace"}}

\* Values that are no Error instance: a plain object with or without a name
\* property, a thrown string, undefined.
PlainThrown ==
    {[kind |-> "object", name |-> <<<<"AbortError">>>>],
     [kind |-> "object", name |-> <<>>],
     [kind |-> "string", text |-> <<"nope">>],
     [kind |-> "string", text |-> <<"AbortError">>],
     [kind |-> "undefined"]}

Thrown == ErrorObjects \cup PlainThrown

\* String(err)
String(err) ==
    CASE err.kind = "Error" -> ErrorToString(err.name, err.message)
      [] err.kind = "object" -> <<"[object Object]">>
      [] err.kind = "string" -> err.text
      [] OTHER -> <<"undefined">>

-----------------------------------------------------------------------------
(* Collaborators of the adapter *)

\* normalizeToolName of ./tool-policy.js: an alias table, other names unchanged.
ToolNameAliases == [bash |-> "exec"]

NormalizeToolName(name) ==
    IF name \in DOMAIN ToolNameAliases THEN ToolNameAliases[name] ELSE name

\* jsonResult of ./tools/common.js: the payload is the result's details.
JsonResult(payload) == [details |-> payload]

\* The AgentTool objects handed to toToolDefinitions.
RegisteredTools ==
    <<[name |-> "bash", label |-> <<"Bash">>, description |-> <<<<"throws">>>>],
      [name |-> "mytool", label |-> <<>>, description |-> <<>>],
      [name |-> "", label |-> <<>>, description |-> <<>>]>>

\* What a tool's own execute resolves with.
ToolPayloads == {[details |-> [success |-> TRUE]], [details |-> [ok |-> TRUE]]}

\* Parameter objects: sets of <<key, value>> pairs.
ParamObjects ==
    {{}, {<<"foo", "original">>}, {<<"foo", "modified">>}, {<<"bar", "modified">>}}

\* The parameter objects the host engine calls a wrapper with.
CallParams == {{}, {<<"foo", "original">>}}

\* ToolDefinitionContext, or undefined.
Contexts == {<<>>, <<[sessionKey |-> <<<<"test:session">>>>, agentId |-> <<>>]>>}

\* What runBeforeToolCall resolves with: undefined, or a verdict.
BlockReasons == {<<>>, <<<<>>>>, <<<<"Not allowed for this session">>>>}

\* A blocking verdict may carry a reason and may carry params as well; an
\* allowing verdict carries no reason.
HookResults ==
    {<<>>} \cup
    {<<[block |-> TRUE, blockReason |-> r, params |-> q]>> :
        r \in BlockReasons, q \in {<<>>, <<{<<"foo", "modified">>}>>}} \cup
    {<<[block |-> FALSE, blockReason |-> <<>>, params |-> q]>> :
        q \in {<<>>} \cup {<<p>> : p \in ParamObjects}}

\* A few verdicts for calls that run at the same time.
ConcurrentHookResults ==
    {<<>>,
     <<[block |-> TRUE, blockReason |-> <<<<"Not allowed for this session">>>>,
        params |-> <<>>]>>,
     <<[block |-> FALSE, blockReason |-> <<>>, params |-> <<{<<"foo", "modified">>}>>]>>,
     <<[block |-> FALSE, blockReason |-> <<>>, params |-> <<{<<"bar", "modified">>}>>]>>}

\* What runBeforeToolCall raises, and what a failing hasHooks raises.
HookErrors == {MkError(<<"Error">>, <<"Hook crashed">>, "trace")}

HasHooksError == MkError(<<"TypeError">>, <<"hasHooks failed">>, "trace")

\* The process-wide dispatcher: absent, without or with before_tool_call
\* hooks, or one whose hasHooks raises.
HookRunners == {"absent", "noHooks", "hooks", "broken"}

DefaultBlockReason == <<"Tool call blocked by plugin">>

-----------------------------------------------------------------------------
(* toToolDefinitions *)

ToToolDefinitions(tools) ==
    [i \in DOMAIN tools |->
        LET name == IF tools[i].name # "" THEN tools[i].name ELSE "tool"
        IN  [name |-> name,
             label |-> IF tools[i].label # <<>> THEN tools[i].label[1] ELSE name,
             description |-> IF tools[i].description # <<>>
                             THEN tools[i].description[1] ELSE <<>>,
             normalizedName |-> NormalizeToolName(name),
             tool |-> i]]

defs == ToToolDefinitions(RegisteredTools)

\* One call of a wrapper's execute.  hookArgs, hookOutcome, execArgs,
\* execOutcome and log record what the call did to its collaborators;
\* outcome is <<>> while the call is pending.
IdleCall ==
    [pc |-> "idle", wrapper |-> "tool", def |-> 1, ctx |-> <<>>,
     toolCallId |-> 0, params |-> {},
     signal |-> "undefined", onUpdate |-> "undefined",
     hasCallback |-> FALSE, notified |-> <<>>,
     hasHooks |-> "unchecked", hookArgs |-> <<>>, hookOutcome |-> <<>>,
     execArgs |-> <<>>, execOutcome |-> <<>>, abortedAtCatch |-> FALSE,
     outcome |-> <<>>, log |-> <<>>]

Returned(v) == [kind |-> "returned", value |-> v]
Raised(e) == [kind |-> "raised", value |-> e]

LogLine(call, level, text) ==
    [call EXCEPT !.log = Append(@, [level |-> level, text |-> text])]

\* tool.execute(toolCallId, params, signal, onUpdate)
InvokeExecute(call, params) ==
    [call EXCEPT !.pc = "execPending",
                 !.execArgs = Append(@, [toolCallId |-> call.toolCallId,
                                         params |-> params,
                                         signal |-> IF call.signal = "undefined"
                                                    THEN "undefined" ELSE "signal",
                                         onUpdate |-> call.onUpdate])]

\* hookRunner.runBeforeToolCall({toolName, params}, {agentId, sessionKey, toolName})
InvokeHook(call) ==
    LET n == defs[call.def].normalizedName
        context == call.ctx
    IN  [call EXCEPT
            !.pc = "hookPending",
            !.hookArgs = Append(@,
                [event |-> [toolName |-> n, params |-> call.params],
                 context |-> [agentId |-> IF context = <<>> THEN <<>>
                                          ELSE context[1].agentId,
                              sessionKey |-> IF context = <<>> THEN <<>>
                                             ELSE context[1].sessionKey,
                              toolName |-> n]])]

\* Mutant: execute is started without awaiting the hook's verdict.
BeginCallNotAwaitingHook(call, runner) ==
    CASE runner = "broken" ->
            [call EXCEPT !.pc = "done", !.hasHooks = "threw",
                         !.outcome = <<Raised(HasHooksError)>>]
      [] runner = "hooks" ->
            InvokeExecute(InvokeHook([call EXCEPT !.hasHooks = "true"]), call.params)
      [] runner = "noHooks" ->
            InvokeExecute([call EXCEPT !.hasHooks = "false"], call.params)
      [] OTHER ->
            InvokeExecute([call EXCEPT !.hasHooks = "absent"], call.params)

\* The wrapper up to its first await: the dispatcher lookup and hasHooks.
\* hasHooks is called outside the try block, so its failure rejects the call.
BeginCall(call, runner) ==
    CASE runner = "broken" ->
            [call EXCEPT !.pc = "done", !.hasHooks = "threw",
                         !.outcome = <<Raised(HasHooksError)>>]
      [] runner = "hooks" ->
            InvokeHook([call EXCEPT !.hasHooks = "true"])
      [] runner = "noHooks" ->
            InvokeExecute([call EXCEPT !.hasHooks = "false"], call.params)
      [] OTHER ->
            InvokeExecute([call EXCEPT !.hasHooks = "absent"], call.params)

\* Mutant: replacement params are looked at before the block verdict.
OnHookResultParamsFirst(call, hookResult) ==
    LET n == defs[call.def].normalizedName
        seen == [call EXCEPT !.hookOutcome = Append(@, [kind |-> "returned",
                                                        value |-> hookResult])]
    IN  IF hookResult # <<>> /\ hookResult[1].params # <<>>
        THEN InvokeExecute(seen, hookResult[1].params[1])
        ELSE IF hookResult # <<>> /\ hookResult[1].block
        THEN LET given == hookResult[1].blockReason
                 reason == IF given # <<>> /\ Truthy(given[1])
                           THEN given[1] ELSE DefaultBlockReason
             IN  [LogLine(seen, "warn", <<"[tools] ", n, " blocked: ">> \o reason)
                    EXCEPT !.pc = "done",
                           !.outcome = <<Returned(JsonResult(
                               [status |-> "blocked", tool |-> n, error |-> reason]))>>]
        ELSE InvokeExecute(seen, call.params)

\* Mutant: the params are kept in a variable of the wrapper that every call
\* overwrites, so an allowed call runs with what the latest call left there.
OnHookResultWithSharedParams(call, hookResult) ==
    LET n == defs[call.def].normalizedName
        seen == [call EXCEPT !.hookOutcome = Append(@, [kind |-> "returned",
                                                        value |-> hookResult])]
        last == CHOOSE d \in CallIds :
                    /\ calls[d].pc # "idle"
                    /\ \A e \in CallIds : calls[e].pc # "idle" => e <= d
    IN  IF hookResult # <<>> /\ hookResult[1].block
        THEN LET given == hookResult[1].blockReason
                 reason == IF given # <<>> /\ Truthy(given[1])
                           THEN given[1] ELSE DefaultBlockReason
             IN  [LogLine(seen, "warn", <<"[tools] ", n, " blocked: ">> \o reason)
                    EXCEPT !.pc = "done",
                           !.outcome = <<Returned(JsonResult(
                               [status |-> "blocked", tool |-> n, error |-> reason]))>>]
        ELSE IF hookResult # <<>> /\ hookResult[1].params # <<>>
        THEN InvokeExecute(seen, hookResult[1].params[1])
        ELSE InvokeExecute(seen, calls[last].params)

\* Mutant: the block verdict is ignored and the tool runs.
OnHookResultIgnoringBlock(call, hookResult) ==
    LET seen == [call EXCEPT !.hookOutcome = Append(@, [kind |-> "returned",
                                                        value |-> hookResult])]
    IN  IF hookResult # <<>> /\ hookResult[1].params # <<>>
        THEN InvokeExecute(seen, hookResult[1].params[1])
        ELSE InvokeExecute(seen, call.params)

\* Mutant: the replacement params are merged over the original ones.
OnHookResultMerging(call, hookResult) ==
    LET n == defs[call.def].normalizedName
        seen == [call EXCEPT !.hookOutcome = Append(@, [kind |-> "returned",
                                                        value |-> hookResult])]
    IN  IF hookResult # <<>> /\ hookResult[1].block
        THEN [seen EXCEPT !.pc = "done",
                          !.outcome = <<Returned(JsonResult(
                              [status |-> "blocked", tool |-> n,
                               error |-> DefaultBlockReason]))>>]
        ELSE IF hookResult # <<>> /\ hookResult[1].params # <<>>
        THEN LET new == hookResult[1].params[1]
                 kept == {kv \in call.params : \A nv \in new : nv[1] # kv[1]}
             IN  InvokeExecute(seen, new \cup kept)
        ELSE InvokeExecute(seen, call.params)

\* runBeforeToolCall resolved with hookResult (<<>> is undefined).
OnHookResult(call, hookResult) ==
    LET n == defs[call.def].normalizedName
        seen == [call EXCEPT !.hookOutcome = Append(@, [kind |-> "returned",
                                                        value |-> hookResult])]
    IN  IF hookResult # <<>> /\ hookResult[1].block
        THEN LET given == hookResult[1].blockReason
                 reason == IF given # <<>> /\ Truthy(given[1])
                           THEN given[1] ELSE DefaultBlockReason
             IN  [LogLine(seen, "warn", <<"[tools] ", n, " blocked: ">> \o reason)
                    EXCEPT !.pc = "done",
                           !.outcome = <<Returned(JsonResult(
                               [status |-> "blocked", tool |-> n, error |-> reason]))>>]
        ELSE IF hookResult # <<>> /\ hookResult[1].params # <<>>
        THEN InvokeExecute(seen, hookResult[1].params[1])
        ELSE InvokeExecute(seen, call.params)

\* Mutant: the hook's failure is raised to the caller.
OnHookErrorRaising(call, hookErr) ==
    [call EXCEPT !.pc = "done",
                 !.hookOutcome = Append(@, [kind |-> "raised", value |-> hookErr]),
                 !.outcome = <<Raised(hookErr)>>]

\* runBeforeToolCall rejected: warn and continue.
OnHookError(call, hookErr) ==
    InvokeExecute(
        LogLine([call EXCEPT !.hookOutcome = Append(@, [kind |-> "raised",
                                                        value |-> hookErr])],
                "warn", <<"[tools] before_tool_call hook failed: ">> \o String(hookErr)),
        call.params)

\* Mutant: the tool's payload is wrapped into a new envelope.
OnExecuteResultRewrapping(call, payload) ==
    [call EXCEPT !.pc = "done",
                 !.execOutcome = Append(@, [kind |-> "returned", value |-> payload]),
                 !.outcome = <<Returned(JsonResult(payload))>>]

\* tool.execute resolved.
OnExecuteResult(call, payload) ==
    [call EXCEPT !.pc = "done",
                 !.execOutcome = Append(@, [kind |-> "returned", value |-> payload]),
                 !.outcome = <<Returned(payload)>>]

\* Mutant: the stack, when there is one, is reported as the message.
DescribeToolExecutionErrorWithStack(err) ==
    IF err.kind = "Error"
    THEN [message |-> IF err.stack # <<>> THEN err.stack[1]
                      ELSE IF Truthy(Trim(err.message)) THEN err.message
                      ELSE String(err),
          stack |-> err.stack]
    ELSE [message |-> String(err), stack |-> <<>>]

\* describeToolExecutionError
DescribeToolExecutionError(err) ==
    IF err.kind = "Error"
    THEN [message |-> IF Truthy(Trim(err.message)) THEN err.message ELSE String(err),
          stack |-> err.stack]
    ELSE [message |-> String(err), stack |-> <<>>]

\* err && typeof err === "object" && "name" in err ? String(err.name) : ""
ThrownName(err) ==
    IF err.kind = "Error" THEN err.name
    ELSE IF err.kind = "object" /\ err.name # <<>> THEN err.name[1]
    ELSE <<>>

\* Mutant: a failure under an aborted signal becomes an error envelope.
OnExecuteErrorIgnoringSignal(call, err, aborted) ==
    LET n == defs[call.def].normalizedName
        seen == [call EXCEPT !.execOutcome = Append(@, [kind |-> "raised",
                                                        value |-> err]),
                             !.abortedAtCatch = aborted,
                             !.pc = "done"]
    IN  IF ThrownName(err) = <<"AbortError">>
        THEN [seen EXCEPT !.outcome = <<Raised(err)>>]
        ELSE [seen EXCEPT !.outcome = <<Returned(JsonResult(
                    [status |-> "error", tool |-> n,
                     error |-> DescribeToolExecutionError(err).message]))>>]

\* tool.execute rejected; aborted is signal?.aborted in the catch block.
OnExecuteError(call, err, aborted) ==
    LET n == defs[call.def].normalizedName
        seen == [call EXCEPT !.execOutcome = Append(@, [kind |-> "raised",
                                                        value |-> err]),
                             !.abortedAtCatch = aborted,
                             !.pc = "done"]
        described == DescribeToolExecutionError(err)
        traced == IF described.stack # <<>> /\ described.stack[1] # described.message
                  THEN LogLine(seen, "debug",
                               <<"tools: ", n, " failed stack:\n">> \o described.stack[1])
                  ELSE seen
    IN  IF aborted THEN [seen EXCEPT !.outcome = <<Raised(err)>>]
        ELSE IF ThrownName(err) = <<"AbortError">>
        THEN [seen EXCEPT !.outcome = <<Raised(err)>>]
        ELSE [LogLine(traced, "error", <<"[tools] ", n, " failed: ">> \o described.message)
                EXCEPT !.outcome = <<Returned(JsonResult(
                    [status |-> "error", tool |-> n, error |-> described.message]))>>]

-----------------------------------------------------------------------------
(* toClientToolDefinitions *)

\* The ClientToolDefinition objects handed to toClientToolDefinitions.
ClientTools ==
    <<[function |-> [name |-> "bash", description |-> <<>>]],
      [function |-> [name |-> "browser_click", description |-> <<<<"clicks">>>>]]>>

ToClientToolDefinitions(tools) ==
    [i \in DOMAIN tools |->
        [name |-> tools[i].function.name,
         label |-> tools[i].function.name,
         description |-> IF tools[i].function.description # <<>>
                         THEN tools[i].function.description[1] ELSE <<>>]]

clientDefs == ToClientToolDefinitions(ClientTools)

\* Mutant: the client tool goes through the hook gateway like a local tool.
ClientExecuteThroughGateway(call) ==
    LET name == clientDefs[call.def].name
        told == IF call.hasCallback
                THEN [call EXCEPT !.notified = Append(@, [toolName |-> name,
                                                          params |-> call.params])]
                ELSE call
    IN  [told EXCEPT !.pc = "done", !.hasHooks = "true",
                     !.outcome = <<Returned(JsonResult(
                         [status |-> "pending", tool |-> NormalizeToolName(name),
                          message |-> <<"Tool execution delegated to client">>]))>>]

\* The whole of a client wrapper's execute: it has no await.
ClientExecute(call) ==
    LET name == clientDefs[call.def].name
        told == IF call.hasCallback
                THEN [call EXCEPT !.notified = Append(@, [toolName |-> name,
                                                          params |-> call.params])]
                ELSE call
    IN  [told EXCEPT !.pc = "done",
                     !.outcome = <<Returned(JsonResult(
                         [status |-> "pending", tool |-> name,
                          message |-> <<"Tool execution delegated to client">>]))>>]

-----------------------------------------------------------------------------
(* runPluginAgentTurn *)

\* String(n) of a natural number: its decimal digits.
Digit(d) == <<"0", "1", "2", "3", "4", "5", "6", "7", "8", "9">>[d + 1]

RECURSIVE NumberToString(_)
NumberToString(n) ==
    IF n < 10 THEN <<Digit(n)>> ELSE NumberToString(n \div 10) \o <<Digit(n % 10)>>

\* Math.ceil(ms / 1000) of a natural number of milliseconds
CeilSeconds(ms) == (ms + 999) \div 1000

TimeoutsMs == {h * 500 + d : h \in 0..MaxHalfSeconds, d \in {0, 1}}

\* PluginAgentRunParams.  The fields that are handed through unchanged are
\* all absent or all present.
HandedThrough ==
    {[initialMessages |-> <<>>, sessionKey |-> <<>>, thinking |-> <<>>,
      deliver |-> <<>>, agentId |-> <<>>],
     [initialMessages |-> <<<<"user: hi", "assistant: hello">>>>,
      sessionKey |-> <<"agent:main:main">>, thinking |-> <<"low">>,
      deliver |-> <<TRUE>>, agentId |-> <<"main">>]}

Requests ==
    {[prompt |-> <<"x">>, model |-> m, lane |-> ln, timeoutMs |-> t] @@ h :
        m \in {<<>>, <<"anthropic/claude-sonnet-4-20250514">>},
        ln \in {<<>>, <<<<>>>>, <<<<"memory">>>>},
        t \in {<<>>} \cup {<<ms>> : ms \in TimeoutsMs},
        h \in HandedThrough}

\* What agentCommand resolves with: undefined, or {payloads?, meta?}.
PayloadKinds ==
    {[text |-> <<>>], [text |-> <<<<>>>>], [text |-> <<<<"a">>>>], [text |-> <<<<"b">>>>]}

PayloadLists == UNION {[1..n -> PayloadKinds] : n \in 0..MaxPayloads}

ReportedUsage ==
    [input |-> <<10>>, output |-> <<5>>, cacheRead |-> <<>>, cacheWrite |-> <<3>>,
     total |-> <<15>>]

Metas ==
    {<<>>, <<[agentMeta |-> <<>>]>>, <<[agentMeta |-> <<[usage |-> <<>>]>>]>>,
     <<[agentMeta |-> <<[usage |-> <<ReportedUsage>>]>>]>>}

EngineResults ==
    {<<>>} \cup
    {<<[payloads |-> ps, meta |-> m]>> :
        ps \in {<<>>} \cup {<<l>> : l \in PayloadLists}, m \in Metas}

\* The same with longer payload lists and no meta, for requests that set
\* prompt only (and the fields handed through).
TextLists == UNION {[1..n -> PayloadKinds] : n \in 0..MaxTexts}

TextResults ==
    {<<>>, <<[payloads |-> <<>>, meta |-> <<>>]>>} \cup
    {<<[payloads |-> <<l>>, meta |-> <<>>]>> : l \in TextLists}

PlainRequests ==
    {r \in Requests : r.model = <<>> /\ r.lane = <<>> /\ r.timeoutMs = <<>>}

\* A few engine outcomes for launches that run at the same time.
ConcurrentResults ==
    {<<>>,
     <<[payloads |-> <<<<[text |-> <<<<"a">>>>]>>>>,
        meta |-> <<[agentMeta |-> <<[usage |-> <<ReportedUsage>>]>>]>>]>>,
     <<[payloads |-> <<<<[text |-> <<<<"b">>>>], [text |-> <<<<>>>>]>>>>,
        meta |-> <<>>]>>}

ConcurrentErrors ==
    {MkError(<<"Error">>, <<"down">>, "trace"),
     [kind |-> "string", text |-> <<"timeout">>]}

\* What agentCommand raises.
EngineErrors ==
    {MkError(<<"Error">>, <<"down">>, "trace"),
     [kind |-> "string", text |-> <<"timeout">>],
     [kind |-> "undefined"]}

\* randomUUID(): an identifier no earlier call has returned.
RandomUUID(issued) == <<"uuid", issued + 1>>

IdleLaunch ==
    [pc |-> "idle", params |-> <<>>, runId |-> <<>>, engineArgs |-> <<>>,
     engineOutcome |-> <<>>, outcome |-> <<>>]

\* Mutant: the lane is handed on as the request has it, with no default.
BeginLaunchWithoutDefaultLane(launch, params, runId) ==
    [launch EXCEPT
        !.pc = "enginePending",
        !.params = <<params>>,
        !.runId = <<runId>>,
        !.engineArgs = Append(@,
            [message |-> params.prompt,
             sessionKey |-> params.sessionKey,
             thinking |-> params.thinking,
             deliver |-> params.deliver,
             lane |-> IF params.lane # <<>> THEN params.lane[1] ELSE <<>>,
             timeout |-> IF params.timeoutMs # <<>> /\ params.timeoutMs[1] # 0
                         THEN <<NumberToString(CeilSeconds(params.timeoutMs[1]))>>
                         ELSE <<>>,
             agentId |-> params.agentId,
             initialMessages |-> params.initialMessages,
             runId |-> runId])]

\* Mutant: the run identifier is derived from the request's session key.
BeginLaunchKeyedBySession(launch, params, runId) ==
    LET id == IF params.sessionKey # <<>> THEN <<"uuid", 0>> ELSE runId
    IN  [launch EXCEPT
            !.pc = "enginePending",
            !.params = <<params>>,
            !.runId = <<id>>,
            !.engineArgs = Append(@,
                [message |-> params.prompt,
                 sessionKey |-> params.sessionKey,
                 thinking |-> params.thinking,
                 deliver |-> params.deliver,
                 lane |-> IF params.lane # <<>> THEN params.lane[1] ELSE <<"plugin">>,
                 timeout |-> IF params.timeoutMs # <<>> /\ params.timeoutMs[1] # 0
                             THEN <<NumberToString(CeilSeconds(params.timeoutMs[1]))>>
                             ELSE <<>>,
                 agentId |-> params.agentId,
                 initialMessages |-> params.initialMessages,
                 runId |-> id])]

\* The launcher up to its await: the run identifier and the call of
\* agentCommand(opts, defaultRuntime, createDefaultDeps()).
BeginLaunch(launch, params, runId) ==
    [launch EXCEPT
        !.pc = "enginePending",
        !.params = <<params>>,
        !.runId = <<runId>>,
        !.engineArgs = Append(@,
            [message |-> params.prompt,
             sessionKey |-> params.sessionKey,
             thinking |-> params.thinking,
             deliver |-> params.deliver,
             lane |-> IF params.lane # <<>> THEN params.lane[1] ELSE <<"plugin">>,
             timeout |-> IF params.timeoutMs # <<>> /\ params.timeoutMs[1] # 0
                         THEN <<NumberToString(CeilSeconds(params.timeoutMs[1]))>>
                         ELSE <<>>,
             agentId |-> params.agentId,
             initialMessages |-> params.initialMessages,
             runId |-> runId])]

\* Mutant: the filter forgets the length test and keeps empty texts.
RECURSIVE ResponseTextsOfKeepingEmpty(_)
ResponseTextsOfKeepingEmpty(payloads) ==
    IF payloads = <<>> THEN <<>>
    ELSE LET p == Head(payloads)
         IN  IF p.text # <<>>
             THEN <<p.text[1]>> \o ResponseTextsOfKeepingEmpty(Tail(payloads))
             ELSE ResponseTextsOfKeepingEmpty(Tail(payloads))

\* payloads.filter(p => typeof p.text === "string" && p.text.length > 0)
\*         .map(p => p.text)
RECURSIVE ResponseTextsOf(_)
ResponseTextsOf(payloads) ==
    IF payloads = <<>> THEN <<>>
    ELSE LET p == Head(payloads)
         IN  IF p.text # <<>> /\ Len(p.text[1]) > 0
             THEN <<p.text[1]>> \o ResponseTextsOf(Tail(payloads))
             ELSE ResponseTextsOf(Tail(payloads))

\* result?.meta?.agentMeta?.usage
AgentUsageOf(result) ==
    IF result = <<>> \/ result[1].meta = <<>> \/ result[1].meta[1].agentMeta = <<>>
    THEN <<>>
    ELSE result[1].meta[1].agentMeta[1].usage

\* Mutant: a turn without payloads is reported as a failed run.
OnEngineResultRequiringPayloads(launch, result) ==
    [launch EXCEPT
        !.pc = "done",
        !.engineOutcome = Append(@, [kind |-> "returned", value |-> result]),
        !.outcome = IF result = <<>> \/ result[1].payloads = <<>>
                    THEN <<Returned([ok |-> FALSE, runId |-> launch.runId[1],
                                     error |-> <<"no payloads">>])>>
                    ELSE <<Returned([ok |-> TRUE, runId |-> launch.runId[1],
                                     responseTexts |->
                                        <<ResponseTextsOf(result[1].payloads[1])>>,
                                     usage |-> <<>>])>>]

\* Mutant: the run identifier is kept in a module-level variable that every
\* launch overwrites, and the result reports what it holds.
OnEngineResultWithSharedRunId(launch, result) ==
    LET responseTexts ==
            IF result = <<>> \/ result[1].payloads = <<>> THEN <<>>
            ELSE <<ResponseTextsOf(result[1].payloads[1])>>
        agentUsage == AgentUsageOf(result)
        usage == IF agentUsage # <<>>
                 THEN <<[input |-> agentUsage[1].input,
                         output |-> agentUsage[1].output,
                         cacheRead |-> agentUsage[1].cacheRead,
                         cacheWrite |-> agentUsage[1].cacheWrite,
                         totalTokens |-> agentUsage[1].total]>>
                 ELSE <<>>
    IN  [launch EXCEPT
            !.pc = "done",
            !.engineOutcome = Append(@, [kind |-> "returned", value |-> result]),
            !.outcome = <<Returned([ok |-> TRUE, runId |-> <<"uuid", uuidsIssued>>,
                                    responseTexts |-> responseTexts,
                                    usage |-> usage])>>]

\* agentCommand resolved with result (<<>> is undefined).
OnEngineResult(launch, result) ==
    LET responseTexts ==
            IF result = <<>> \/ result[1].payloads = <<>> THEN <<>>
            ELSE <<ResponseTextsOf(result[1].payloads[1])>>
        agentUsage == AgentUsageOf(result)
        usage == IF agentUsage # <<>>
                 THEN <<[input |-> agentUsage[1].input,
                         output |-> agentUsage[1].output,
                         cacheRead |-> agentUsage[1].cacheRead,
                         cacheWrite |-> agentUsage[1].cacheWrite,
                         totalTokens |-> agentUsage[1].total]>>
                 ELSE <<>>
    IN  [launch EXCEPT
            !.pc = "done",
            !.engineOutcome = Append(@, [kind |-> "returned", value |-> result]),
            !.outcome = <<Returned([ok |-> TRUE, runId |-> launch.runId[1],
                                    responseTexts |-> responseTexts,
                                    usage |-> usage])>>]

\* Mutant: a failed run is handed to the engine a second time.
OnEngineErrorRetrying(launch, err) ==
    IF Len(launch.engineArgs) < 2
    THEN [launch EXCEPT
            !.engineOutcome = Append(@, [kind |-> "raised", value |-> err]),
            !.engineArgs = Append(@, launch.engineArgs[1])]
    ELSE [launch EXCEPT
            !.pc = "done",
            !.engineOutcome = Append(@, [kind |-> "raised", value |-> err]),
            !.outcome = <<Returned([ok |-> FALSE, runId |-> launch.runId[1],
                                    error |-> String(err)])>>]

\* Mutant: the engine's failure is raised to the caller.
OnEngineErrorRaising(launch, err) ==
    [launch EXCEPT
        !.pc = "done",
        !.engineOutcome = Append(@, [kind |-> "raised", value |-> err]),
        !.outcome = <<Raised(err)>>]

\* agentCommand rejected with err.
OnEngineError(launch, err) ==
    [launch EXCEPT
        !.pc = "done",
        !.engineOutcome = Append(@, [kind |-> "raised", value |-> err]),
        !.outcome = <<Returned([ok |-> FALSE, runId |-> launch.runId[1],
                                error |-> String(err)])>>]

-----------------------------------------------------------------------------
(* The adapter's actions *)

Signals == {"undefined", "live", "aborted"}
UpdateCallbacks == {"undefined", "onUpdate"}

NoCallInFlight == \A d \in CallIds : calls[d].pc = "idle"

NewCall(c, wrapper, i, cx, p, sig, upd) ==
    [IdleCall EXCEPT !.wrapper = wrapper, !.def = i, !.ctx = cx, !.toolCallId = c,
                     !.params = p, !.signal = sig, !.onUpdate = upd]

\* The host engine calls defs[i].execute(toolCallId, params, onUpdate, _ctx, signal)
\* of the wrappers built with context cx.
Invoke(c, i, cx, p, sig, upd) ==
    /\ NoCallInFlight
    /\ calls' = [calls EXCEPT ![c] =
                    BeginCall(NewCall(c, "tool", i, cx, p, sig, upd), hookRunner)]
    /\ UNCHANGED <<hookRunner, launches, uuidsIssued>>

HookResolves(c, hookResult) ==
    /\ calls[c].pc = "hookPending"
    /\ calls' = [calls EXCEPT ![c] = OnHookResult(@, hookResult)]
    /\ UNCHANGED <<hookRunner, launches, uuidsIssued>>

HookRejects(c, hookErr) ==
    /\ calls[c].pc = "hookPending"
    /\ calls' = [calls EXCEPT ![c] = OnHookError(@, hookErr)]
    /\ UNCHANGED <<hookRunner, launches, uuidsIssued>>

ExecuteResolves(c, payload) ==
    /\ calls[c].pc = "execPending"
    /\ calls' = [calls EXCEPT ![c] = OnExecuteResult(@, payload)]
    /\ UNCHANGED <<hookRunner, launches, uuidsIssued>>

ExecuteRejects(c, err) ==
    /\ calls[c].pc = "execPending"
    /\ calls' = [calls EXCEPT ![c] = OnExecuteError(@, err, @.signal = "aborted")]
    /\ UNCHANGED <<hookRunner, launches, uuidsIssued>>

\* The caller aborts the signal it passed, while the call is pending.
Abort(c) ==
    /\ calls[c].pc \in {"hookPending", "execPending"}
    /\ calls[c].signal = "live"
    /\ calls' = [calls EXCEPT ![c].signal = "aborted"]
    /\ UNCHANGED <<hookRunner, launches, uuidsIssued>>

\* The host engine calls clientDefs[i].execute of the wrappers built with
\* (hasCallback) or without a delegation callback.
ClientInvoke(c, i, hasCallback, p, sig, upd) ==
    /\ NoCallInFlight
    /\ calls' = [calls EXCEPT ![c] =
                    ClientExecute([NewCall(c, "client", i, <<>>, p, sig, upd)
                                     EXCEPT !.hasCallback = hasCallback])]
    /\ UNCHANGED <<hookRunner, launches, uuidsIssued>>

\* The caller has consumed the call's outcome.
Collect(c) ==
    /\ calls[c].pc = "done"
    /\ calls' = [calls EXCEPT ![c] = IdleCall]
    /\ UNCHANGED <<hookRunner, launches, uuidsIssued>>

\* Plugins are loaded or unloaded: the global dispatcher changes.  A call
\* reads the dispatcher once, before its first await, so only the changes
\* between calls are distinguished.
SetHookRunner(r) ==
    /\ NoCallInFlight
    /\ r # hookRunner
    /\ hookRunner' = r
    /\ UNCHANGED <<calls, launches, uuidsIssued>>

Init ==
    /\ hookRunner \in HookRunners
    /\ calls = [c \in CallIds |-> IdleCall]
    /\ launches = [l \in LaunchIds |-> IdleLaunch]
    /\ uuidsIssued = 0

Next ==
    \/ \E c \in CallIds, i \in DOMAIN defs, cx \in Contexts, p \in CallParams,
          sig \in Signals, upd \in UpdateCallbacks : Invoke(c, i, cx, p, sig, upd)
    \/ \E c \in CallIds, r \in HookResults : HookResolves(c, r)
    \/ \E c \in CallIds, e \in HookErrors : HookRejects(c, e)
    \/ \E c \in CallIds, v \in ToolPayloads : ExecuteResolves(c, v)
    \/ \E c \in CallIds, e \in Thrown : ExecuteRejects(c, e)
    \/ \E c \in CallIds : Abort(c)
    \/ \E c \in CallIds, i \in DOMAIN clientDefs, cb \in BOOLEAN, p \in CallParams,
          sig \in Signals, upd \in UpdateCallbacks : ClientInvoke(c, i, cb, p, sig, upd)
    \/ \E c \in CallIds : Collect(c)
    \/ \E r \in HookRunners : SetHookRunner(r)

Spec == Init /\ [][Next]_vars

\* Calls that overlap on one wrapped tool: the host engine calls
\* defs[2].execute again while earlier calls still await the hook or the tool.
InvokeConcurrently(c, p) ==
    /\ calls[c].pc = "idle"
    /\ calls' = [calls EXCEPT ![c] =
                    BeginCall(NewCall(c, "tool", 2, <<>>, p, "undefined", "undefined"),
                              hookRunner)]
    /\ UNCHANGED <<hookRunner, launches, uuidsIssued>>

ConcurrentInit ==
    /\ hookRunner \in {"noHooks", "hooks"}
    /\ calls = [c \in CallIds |-> IdleCall]
    /\ launches = [l \in LaunchIds |-> IdleLaunch]
    /\ uuidsIssued = 0

ConcurrentNext ==
    \/ \E c \in CallIds, p \in CallParams : InvokeConcurrently(c, p)
    \/ \E c \in CallIds, r \in ConcurrentHookResults : HookResolves(c, r)
    \/ \E c \in CallIds, e \in HookErrors : HookRejects(c, e)
    \/ \E c \in CallIds, v \in ToolPayloads : ExecuteResolves(c, v)
    \/ \E c \in CallIds : ExecuteRejects(c, MkError(<<"Error">>, <<"nope">>, "trace"))
    \/ \E c \in CallIds : Collect(c)

ConcurrentSpec == ConcurrentInit /\ [][ConcurrentNext]_vars

-----------------------------------------------------------------------------
(* Properties of the tool execution adapter *)

ToolCall(c) == calls[c].wrapper = "tool" /\ calls[c].pc # "idle"

\* The arguments the wrapper owes the tool for a call, given the params.
ExpectedExecArgs(call, params) ==
    [toolCallId |-> call.toolCallId, params |-> params,
     signal |-> IF call.signal = "undefined" THEN "undefined" ELSE "signal",
     onUpdate |-> call.onUpdate]

HookReturned(call) ==
    call.hookOutcome # <<>> /\ call.hookOutcome[1].kind = "returned"

HookBlocked(call) ==
    /\ HookReturned(call)
    /\ call.hookOutcome[1].value # <<>>
    /\ call.hookOutcome[1].value[1].block

HookReplacedParams(call) ==
    /\ HookReturned(call)
    /\ call.hookOutcome[1].value # <<>>
    /\ ~call.hookOutcome[1].value[1].block
    /\ call.hookOutcome[1].value[1].params # <<>>

HookRaised(call) ==
    call.hookOutcome # <<>> /\ call.hookOutcome[1].kind = "raised"

\* C1: when runBeforeToolCall returns a verdict with block set, the tool's
\* execute is never invoked and the call returns the envelope {status:
\* "blocked", tool: normalized name, error: the verdict's blockReason}, with
\* the default reason when the verdict carries no (or an empty) reason.
C1_BlockedNeverExecutes ==
    \A c \in CallIds :
        LET call == calls[c]
            verdict == call.hookOutcome[1].value[1]
            reason == IF verdict.blockReason \in {<<>>, <<<<>>>>}
                      THEN <<"Tool call blocked by plugin">>
                      ELSE verdict.blockReason[1]
        IN  (ToolCall(c) /\ HookBlocked(call)) =>
                /\ call.execArgs = <<>>
                /\ call.execOutcome = <<>>
                /\ call.pc = "done"
                /\ call.outcome = <<Returned([details |->
                        [status |-> "blocked",
                         tool |-> NormalizeToolName(defs[call.def].name),
                         error |-> reason]])>>

C1_Witness ==
    \E c \in CallIds :
        /\ ToolCall(c) /\ HookBlocked(calls[c])
        /\ defs[calls[c].def].name = "bash"
        /\ calls[c].hookOutcome[1].value[1].blockReason
              = <<<<"Not allowed for this session">>>>
        /\ calls[c].outcome[1].value.details.error = <<"Not allowed for this session">>
        /\ calls[c].outcome[1].value.details.tool = "exec"

\* C2: when runBeforeToolCall returns a non-blocking verdict that carries
\* params, execute is invoked once, with exactly the replacement object and
\* the call's own toolCallId, signal and onUpdate.
C2_ReplacementSubstitutes ==
    \A c \in CallIds :
        LET call == calls[c]
        IN  (ToolCall(c) /\ HookReplacedParams(call)) =>
                call.execArgs =
                    <<ExpectedExecArgs(call, call.hookOutcome[1].value[1].params[1])>>

C2_Witness ==
    \E c \in CallIds :
        /\ ToolCall(c) /\ HookReplacedParams(calls[c])
        /\ calls[c].params = {<<"foo", "original">>}
        /\ calls[c].signal # "undefined" /\ calls[c].onUpdate # "undefined"
        /\ calls[c].execArgs[1].params = {<<"bar", "modified">>}

\* The outcome a call owes its caller for what execute did.
OutcomeOfExecution(call) ==
    LET done == call.execOutcome[1]
    IN  IF done.kind = "returned" THEN {Returned(done.value)}
        ELSE {Raised(done.value),
              Returned([details |->
                  [status |-> "error",
                   tool |-> NormalizeToolName(defs[call.def].name),
                   error |-> IF done.value.kind = "Error"
                                /\ ~IsBlank(done.value.message)
                             THEN done.value.message ELSE String(done.value)]])}

\* C3: when runBeforeToolCall raises, execute is still invoked, once, with
\* the call's original params, and the call ends with the outcome of that
\* execution (never with the hook's failure).
C3_HookFailureAllows ==
    \A c \in CallIds :
        LET call == calls[c]
        IN  (ToolCall(c) /\ HookRaised(call)) =>
                /\ call.execArgs = <<ExpectedExecArgs(call, call.params)>>
                /\ call.pc \in {"execPending", "done"}
                /\ call.pc = "done" =>
                      /\ Len(call.execOutcome) = 1
                      /\ Len(call.outcome) = 1
                      /\ call.outcome[1] \in OutcomeOfExecution(call)
                      /\ call.outcome[1] # Raised(call.hookOutcome[1].value)

C3_Witness ==
    \E c \in CallIds :
        /\ ToolCall(c) /\ HookRaised(calls[c])
        /\ calls[c].params = {<<"foo", "original">>}
        /\ calls[c].pc = "done"
        /\ calls[c].outcome = <<Returned([details |-> [success |-> TRUE]])>>

\* C4 (as claimed): when hasHooks("before_tool_call") itself throws, the
\* call is treated as allowed: execute is invoked with the original params
\* and the failure of the check is not raised to the caller.
C4_HasHooksFailureAllows ==
    \A c \in CallIds :
        LET call == calls[c]
        IN  (ToolCall(c) /\ call.hasHooks = "threw") =>
                /\ call.execArgs = <<ExpectedExecArgs(call, call.params)>>
                /\ call.outcome # <<Raised(HasHooksError)>>

ExecuteFailed(call) ==
    call.execOutcome # <<>> /\ call.execOutcome[1].kind = "raised"

NamedAbortError(err) ==
    \/ err.kind = "Error" /\ err.name = <<"AbortError">>
    \/ err.kind = "object" /\ err.name = <<<<"AbortError">>>>

IsCancellation(call) ==
    call.abortedAtCatch \/ NamedAbortError(call.execOutcome[1].value)

\* C5: when execute fails while the call's signal is aborted, or with a
\* failure named "AbortError", the call fails with that same failure and
\* returns no envelope.
C5_CancellationPropagates ==
    \A c \in CallIds :
        LET call == calls[c]
        IN  (ToolCall(c) /\ ExecuteFailed(call) /\ IsCancellation(call)) =>
                /\ call.pc = "done"
                /\ call.outcome = <<Raised(call.execOutcome[1].value)>>

C5_Witness ==
    \E c \in CallIds :
        /\ ToolCall(c) /\ ExecuteFailed(calls[c])
        /\ calls[c].abortedAtCatch
        /\ ~NamedAbortError(calls[c].execOutcome[1].value)
        /\ calls[c].execOutcome[1].value.kind = "Error"
        /\ calls[c].outcome[1].kind = "raised"

ErrorEnvelope(call, text) ==
    Returned([details |-> [status |-> "error",
                           tool |-> NormalizeToolName(defs[call.def].name),
                           error |-> text]])

\* The message a failure carries: the message of an Error, the text of any
\* other thrown value.
MessageOf(err) == IF err.kind = "Error" THEN err.message ELSE String(err)

\* C6 (as claimed): a failure of execute that is no cancellation gives the
\* envelope {status: "error", tool: normalized name, error: the failure's
\* message}.
C6_ErrorIsTheMessage ==
    \A c \in CallIds :
        LET call == calls[c]
        IN  (ToolCall(c) /\ ExecuteFailed(call) /\ ~IsCancellation(call)) =>
                call.outcome = <<ErrorEnvelope(call, MessageOf(call.execOutcome[1].value))>>

\* C6 (amended): a failure of execute that is no cancellation is never
\* raised: the call returns {status: "error", tool: normalized name ("exec"
\* for "bash"), error}, where error is the failure's message when the
\* failure is an Error with a non-blank message and String(failure)
\* otherwise; no line of the stack trace is in the envelope.
C6_ErrorIsDescribed ==
    \A c \in CallIds :
        LET call == calls[c]
            err == call.execOutcome[1].value
            text == IF err.kind = "Error" /\ ~IsBlank(err.message)
                    THEN err.message ELSE String(err)
        IN  (ToolCall(c) /\ ExecuteFailed(call) /\ ~IsCancellation(call)) =>
                /\ call.pc = "done"
                /\ call.outcome = <<ErrorEnvelope(call, text)>>
                /\ ~Contains(call.outcome[1].value.details.error, AtLine)
                /\ defs[call.def].name = "bash" =>
                      call.outcome[1].value.details.tool = "exec"

C6_Witness ==
    \E c \in CallIds :
        /\ ToolCall(c) /\ ExecuteFailed(calls[c]) /\ ~IsCancellation(calls[c])
        /\ defs[calls[c].def].name = "bash"
        /\ calls[c].execOutcome[1].value = MkError(<<"Error">>, <<"nope">>, "trace")
        /\ calls[c].outcome[1].value.details
              = [status |-> "error", tool |-> "exec", error |-> <<"nope">>]

\* C7: when the dispatcher is absent or hasHooks returns false,
\* runBeforeToolCall is never invoked, execute is invoked with the call's
\* original params, and on success the call returns execute's own payload.
C7_NoHooksIsDirectCall ==
    \A c \in CallIds :
        LET call == calls[c]
        IN  (ToolCall(c) /\ call.hasHooks \in {"absent", "false"}) =>
                /\ call.hookArgs = <<>>
                /\ call.hookOutcome = <<>>
                /\ call.execArgs = <<ExpectedExecArgs(call, call.params)>>
                /\ (call.execOutcome # <<>> /\ call.execOutcome[1].kind = "returned") =>
                      /\ call.pc = "done"
                      /\ call.outcome = <<Returned(call.execOutcome[1].value)>>

C7_Witness ==
    \E c \in CallIds :
        /\ ToolCall(c) /\ calls[c].hasHooks = "absent"
        /\ calls[c].params = {<<"foo", "original">>}
        /\ calls[c].execOutcome = <<[kind |-> "returned",
                                     value |-> [details |-> [success |-> TRUE]]]>>
        /\ calls[c].outcome = <<Returned([details |-> [success |-> TRUE]])>>

\* C8: within one call with hooks registered, execute starts only after
\* runBeforeToolCall of that call has been invoked and has completed.
C8_HookPrecedesExecute ==
    \A c \in CallIds :
        LET call == calls[c]
        IN  (ToolCall(c) /\ call.hasHooks = "true") =>
                /\ call.pc = "hookPending" => call.execArgs = <<>>
                /\ call.execArgs # <<>> =>
                      Len(call.hookArgs) = 1 /\ Len(call.hookOutcome) = 1
                /\ Len(call.hookOutcome) <= Len(call.hookArgs)

C8_Witness ==
    \E c \in CallIds :
        /\ ToolCall(c) /\ calls[c].hasHooks = "true"
        /\ calls[c].pc = "execPending"
        /\ Len(calls[c].hookOutcome) = 1
        /\ Len(calls[c].execArgs) = 1

-----------------------------------------------------------------------------
(* Properties of the client-delegated tool adapter *)

ClientCall(c) == calls[c].wrapper = "client" /\ calls[c].pc # "idle"

\* C9: a call of a client wrapper notifies the delegation callback, when
\* there is one, exactly once with the declared name and the call's params,
\* returns {status: "pending", tool: declared name}, never consults the
\* hook dispatcher and never runs a capability.
C9_ClientToolIsDelegated ==
    \A c \in CallIds :
        LET call == calls[c]
            name == ClientTools[call.def].function.name
        IN  ClientCall(c) =>
                /\ call.pc = "done"
                /\ call.notified = IF call.hasCallback
                                   THEN <<[toolName |-> name, params |-> call.params]>>
                                   ELSE <<>>
                /\ Len(call.outcome) = 1
                /\ call.outcome[1].kind = "returned"
                /\ call.outcome[1].value.details.status = "pending"
                /\ call.outcome[1].value.details.tool = name
                /\ call.hasHooks = "unchecked"
                /\ call.hookArgs = <<>>
                /\ call.execArgs = <<>>

C9_Witness ==
    \E c \in CallIds :
        /\ ClientCall(c) /\ hookRunner = "hooks"
        /\ calls[c].hasCallback
        /\ calls[c].params = {<<"foo", "original">>}
        /\ Len(calls[c].notified) = 1
        /\ calls[c].outcome[1].value.details.tool = "bash"

-----------------------------------------------------------------------------
(* The launcher's actions *)

NoLaunchInFlight == \A k \in LaunchIds : launches[k].pc = "idle"

\* A plugin calls runPluginAgentTurn(params); launches are made one at a
\* time, each in the first free slot.
Launch(l, params) ==
    /\ NoLaunchInFlight
    /\ \A k \in LaunchIds : k < l => launches[k].pc # "idle"
    /\ uuidsIssued < MaxRuns
    /\ launches' = [launches EXCEPT ![l] =
                        BeginLaunch(IdleLaunch, params, RandomUUID(uuidsIssued))]
    /\ uuidsIssued' = uuidsIssued + 1
    /\ UNCHANGED <<hookRunner, calls>>

EngineResolves(l, result) ==
    /\ launches[l].pc = "enginePending"
    /\ launches' = [launches EXCEPT ![l] = OnEngineResult(@, result)]
    /\ UNCHANGED <<hookRunner, calls, uuidsIssued>>

EngineRejects(l, err) ==
    /\ launches[l].pc = "enginePending"
    /\ launches' = [launches EXCEPT ![l] = OnEngineError(@, err)]
    /\ UNCHANGED <<hookRunner, calls, uuidsIssued>>

\* The plugin has consumed the launch's result.
CollectLaunch(l) ==
    /\ launches[l].pc = "done"
    /\ launches' = [launches EXCEPT ![l] = IdleLaunch]
    /\ UNCHANGED <<hookRunner, calls, uuidsIssued>>

LauncherInit ==
    /\ hookRunner = "absent"
    /\ calls = [c \in CallIds |-> IdleCall]
    /\ launches = [l \in LaunchIds |-> IdleLaunch]
    /\ uuidsIssued = 0

LauncherNext ==
    \/ \E l \in LaunchIds, params \in Requests : Launch(l, params)
    \/ \E l \in LaunchIds, r \in EngineResults : EngineResolves(l, r)
    \/ \E l \in LaunchIds, e \in EngineErrors : EngineRejects(l, e)
    \/ \E l \in LaunchIds : CollectLaunch(l)

LauncherSpec == LauncherInit /\ [][LauncherNext]_vars

\* The launcher followed for its response texts only.
ResponseNext ==
    \/ \E l \in LaunchIds, params \in PlainRequests : Launch(l, params)
    \/ \E l \in LaunchIds, r \in TextResults : EngineResolves(l, r)
    \/ \E l \in LaunchIds, e \in EngineErrors : EngineRejects(l, e)
    \/ \E l \in LaunchIds : CollectLaunch(l)

ResponseSpec == LauncherInit /\ [][ResponseNext]_vars

\* Launches that overlap: a plugin calls runPluginAgentTurn(params) while
\* earlier launches still await the engine.
LaunchConcurrently(l, params) ==
    /\ launches[l].pc = "idle"
    /\ uuidsIssued < MaxRuns
    /\ launches' = [launches EXCEPT ![l] =
                        BeginLaunch(IdleLaunch, params, RandomUUID(uuidsIssued))]
    /\ uuidsIssued' = uuidsIssued + 1
    /\ UNCHANGED <<hookRunner, calls>>

ConcurrentLauncherNext ==
    \/ \E l \in LaunchIds, params \in PlainRequests : LaunchConcurrently(l, params)
    \/ \E l \in LaunchIds, r \in ConcurrentResults : EngineResolves(l, r)
    \/ \E l \in LaunchIds, e \in ConcurrentErrors : EngineRejects(l, e)
    \/ \E l \in LaunchIds : CollectLaunch(l)

ConcurrentLauncherSpec == LauncherInit /\ [][ConcurrentLauncherNext]_vars

-----------------------------------------------------------------------------
(* Properties of the forked-run launcher *)

\* C10: runPluginAgentTurn never raises: when the engine raises, the result
\* is {ok: false, runId, error: String(failure)} ("Error: down" for
\* Error("down")); when the engine returns, the result has ok = true.
C10_LauncherNeverRaises ==
    \A l \in LaunchIds :
        LET launch == launches[l]
            engine == launch.engineOutcome[1]
        IN  /\ launch.outcome # <<>> => launch.outcome[1].kind = "returned"
            /\ launch.pc = "done" =>
                  /\ Len(launch.outcome) = 1
                  /\ engine.kind = "raised" =>
                        /\ launch.outcome[1].value =
                              [ok |-> FALSE, runId |-> launch.runId[1],
                               error |-> String(engine.value)]
                        /\ engine.value = MkError(<<"Error">>, <<"down">>, "trace") =>
                              launch.outcome[1].value.error = <<"Error", ": ", "down">>
                  /\ engine.kind = "returned" =>
                        /\ launch.outcome[1].value.ok = TRUE
                        /\ launch.outcome[1].value.runId = launch.runId[1]

C10_Witness ==
    \E l \in LaunchIds :
        /\ launches[l].pc = "done"
        /\ launches[l].params[1].prompt = <<"x">>
        /\ launches[l].engineOutcome[1]
              = [kind |-> "raised", value |-> MkError(<<"Error">>, <<"down">>, "trace")]
        /\ launches[l].outcome[1].value
              = [ok |-> FALSE, runId |-> <<"uuid", 1>>, error |-> <<"Error", ": ", "down">>]


\* Math.ceil(ms / 1000), stated without division: the least whole number of
\* seconds that covers ms.
LeastCoveringSeconds(ms) ==
    CHOOSE s \in 0..ms : s * 1000 >= ms /\ \A r \in 0..(s - 1) : r * 1000 < ms

\* C11 (as claimed): for every request that supplies timeoutMs, the engine is
\* given the timeout String(ceil(timeoutMs / 1000)) (1500 -> "2"): the
\* supplied timeout is never dropped and never rounded down.
C11_TimeoutRoundsUp ==
    \A l \in LaunchIds :
        LET launch == launches[l]
            ms == launch.params[1].timeoutMs[1]
        IN  (launch.engineArgs # <<>> /\ launch.params[1].timeoutMs # <<>>) =>
                /\ launch.engineArgs[1].timeout
                      = <<NumberToString(LeastCoveringSeconds(ms))>>
                /\ ms = 1500 => launch.engineArgs[1].timeout = <<<<"2">>>>


HasText(p) == p.text # <<>> /\ p.text[1] # <<>>

\* C12: on a successful run responseTexts is the texts, in order, of the
\* payloads whose text is a non-empty string; payloads with missing or empty
\* text give no entry ([{text: "a"}, {text: ""}, {}] gives ["a"]).
C12_ResponseTextsAreTheNonEmptyTexts ==
    \A l \in LaunchIds :
        LET launch == launches[l]
            result == launch.engineOutcome[1].value
            payloads == result[1].payloads[1]
            kept == SelectSeq(payloads, HasText)
            texts == launch.outcome[1].value.responseTexts
        IN  (/\ launch.pc = "done"
             /\ launch.engineOutcome[1].kind = "returned"
             /\ result # <<>>
             /\ result[1].payloads # <<>>) =>
                /\ launch.outcome[1].value.ok
                /\ Len(texts) = 1
                /\ Len(texts[1]) = Len(kept)
                /\ \A i \in 1..Len(kept) : texts[1][i] = kept[i].text[1]
                /\ payloads = <<[text |-> <<<<"a">>>>], [text |-> <<<<>>>>], [text |-> <<>>]>>
                      => texts[1] = <<<<"a">>>>

C12_Witness ==
    \E l \in LaunchIds :
        /\ launches[l].pc = "done"
        /\ launches[l].engineOutcome[1].kind = "returned"
        /\ launches[l].engineOutcome[1].value # <<>>
        /\ launches[l].engineOutcome[1].value[1].payloads
              = <<<<[text |-> <<<<"b">>>>], [text |-> <<<<>>>>], [text |-> <<<<"a">>>>]>>>>
        /\ launches[l].outcome[1].value.responseTexts = <<<<<<"b">>, <<"a">>>>>>


\* C14 (as claimed): when the request names a model, the invocation handed to
\* the engine carries that model.
C14_ModelIsHandedOn ==
    \A l \in LaunchIds :
        LET launch == launches[l]
        IN  (launch.engineArgs # <<>> /\ launch.params[1].model # <<>>) =>
                /\ "model" \in DOMAIN launch.engineArgs[1]
                /\ launch.engineArgs[1].model = launch.params[1].model

\* C15: the engine is given the request's lane when the request has one and
\* the lane "plugin" otherwise, so no run is launched without a lane.
C15_LaneDefaultsToPlugin ==
    \A l \in LaunchIds :
        LET launch == launches[l]
            lane == launch.params[1].lane
        IN  launch.engineArgs # <<>> =>
                /\ launch.engineArgs[1].lane
                      = (IF lane # <<>> THEN lane[1] ELSE <<"plugin">>)
                /\ launch.engineArgs[1].lane \in Seq({"plugin", "memory"})

C15_Witness ==
    /\ \E l \in LaunchIds :
          /\ launches[l].engineArgs # <<>>
          /\ launches[l].params[1].lane = <<>>
          /\ launches[l].engineArgs[1].lane = <<"plugin">>
    /\ uuidsIssued = 2

\* C18: a launch hands its run to the engine exactly once and never again
\* after a failure; the result of a failed run has ok, runId and error and
\* neither responseTexts nor usage.
C18_EngineInvokedOnce ==
    \A l \in LaunchIds :
        LET launch == launches[l]
        IN  /\ launch.pc # "idle" => Len(launch.engineArgs) = 1
            /\ Len(launch.engineOutcome) <= 1
            /\ (launch.engineOutcome # <<>>
                    /\ launch.engineOutcome[1].kind = "raised") =>
                  /\ launch.pc = "done"
                  /\ launch.outcome[1].kind = "returned"
                  /\ DOMAIN launch.outcome[1].value = {"ok", "runId", "error"}
                  /\ ~launch.outcome[1].value.ok

C18_Witness ==
    \E l \in LaunchIds :
        /\ launches[l].pc = "done"
        /\ launches[l].engineOutcome[1].kind = "raised"
        /\ Len(launches[l].engineArgs) = 1
        /\ ~launches[l].outcome[1].value.ok


\* A verdict that both blocks and carries replacement params.
HookBlockedWithParams(call) ==
    HookBlocked(call) /\ call.hookOutcome[1].value[1].params # <<>>

\* C19: when one verdict carries both block and replacement params, the
\* block wins: the call ends with a "blocked" envelope and execute is
\* invoked neither with the original nor with the replacement params.
C19_BlockPrecedesReplacement ==
    \A c \in CallIds :
        LET call == calls[c]
        IN  (ToolCall(c) /\ HookBlockedWithParams(call)) =>
                /\ call.execArgs = <<>>
                /\ call.pc = "done"
                /\ call.outcome[1].kind = "returned"
                /\ call.outcome[1].value.details.status = "blocked"
                /\ call.outcome[1].value.details.tool
                      = NormalizeToolName(defs[call.def].name)

C19_Witness ==
    \E c \in CallIds :
        /\ ToolCall(c) /\ HookBlockedWithParams(calls[c])
        /\ calls[c].params = {<<"foo", "original">>}
        /\ calls[c].hookOutcome[1].value[1].params = <<{<<"foo", "modified">>}>>
        /\ calls[c].outcome[1].value.details.status = "blocked"

\* The four ways a call of the wrapper may end.
EndsWithPayload(call) ==
    /\ call.execOutcome # <<>> /\ call.execOutcome[1].kind = "returned"
    /\ call.outcome = <<Returned(call.execOutcome[1].value)>>

EndsBlocked(call) ==
    /\ call.outcome[1].kind = "returned"
    /\ DOMAIN call.outcome[1].value = {"details"}
    /\ DOMAIN call.outcome[1].value.details = {"status", "tool", "error"}
    /\ call.outcome[1].value.details.status = "blocked"
    /\ call.execArgs = <<>>

EndsWithErrorEnvelope(call) ==
    /\ ExecuteFailed(call)
    /\ call.outcome[1].kind = "returned"
    /\ DOMAIN call.outcome[1].value = {"details"}
    /\ DOMAIN call.outcome[1].value.details = {"status", "tool", "error"}
    /\ call.outcome[1].value.details.status = "error"

EndsReRaising(call) ==
    /\ ExecuteFailed(call)
    /\ call.outcome = <<Raised(call.execOutcome[1].value)>>

Count(b) == IF b THEN 1 ELSE 0

\* C20 (as claimed): in every call of a wrapper made by toToolDefinitions,
\* runBeforeToolCall and execute are each invoked at most once, and a call
\* that has ended has ended in exactly one of: the tool's own payload, a
\* "blocked" envelope, an "error" envelope, the tool's failure raised again.
C20_OneOfFourOutcomes ==
    \A c \in CallIds :
        LET call == calls[c]
        IN  ToolCall(c) =>
                /\ Len(call.hookArgs) <= 1 /\ Len(call.hookOutcome) <= 1
                /\ Len(call.execArgs) <= 1 /\ Len(call.execOutcome) <= 1
                /\ call.pc = "done" =>
                      /\ Len(call.outcome) = 1
                      /\ Count(EndsWithPayload(call)) + Count(EndsBlocked(call))
                           + Count(EndsWithErrorEnvelope(call))
                           + Count(EndsReRaising(call)) = 1


\* The identifiers randomUUID has returned so far.
IssuedUUIDs == {<<"uuid", k>> : k \in 1..uuidsIssued}

RunIdIsCarried ==
    \A l \in LaunchIds :
        LET launch == launches[l]
        IN  /\ launch.pc # "idle" =>
                  /\ Len(launch.runId) = 1
                  /\ launch.runId[1] \in IssuedUUIDs
                  /\ launch.engineArgs[1].runId = launch.runId[1]
            /\ launch.pc = "done" =>
                  launch.outcome[1].value.runId = launch.engineArgs[1].runId
            /\ \A k \in LaunchIds \ {l} :
                  (launch.pc # "idle" /\ launches[k].pc # "idle") =>
                      launch.runId[1] # launches[k].runId[1]

RunIdIsFresh ==
    \A l \in LaunchIds :
        (launches[l].pc = "idle" /\ launches'[l].pc # "idle") =>
            /\ launches'[l].engineArgs[1].runId \notin IssuedUUIDs
            /\ launches'[l].engineArgs[1].runId \in IssuedUUIDs'

\* C13: each launch gets, when it is launched, a run identifier that no
\* earlier or other launch has, whatever the request holds; that identifier
\* is handed to the engine and is the runId of the result, on success and on
\* failure.
C13_RunIdIsFreshAndCarried == []RunIdIsCarried /\ [][RunIdIsFresh]_vars

C13_Witness ==
    \E a, b \in LaunchIds :
        /\ launches[a].pc = "done" /\ launches[b].pc = "done"
        /\ launches[a].params = launches[b].params
        /\ launches[a].params[1].sessionKey # <<>>
        /\ launches[a].outcome[1].value.ok /\ ~launches[b].outcome[1].value.ok
        /\ launches[a].outcome[1].value.runId = <<"uuid", 1>>
        /\ launches[b].outcome[1].value.runId = <<"uuid", 2>>

TextOf(p) == p.text[1]

\* The result a launch owes its caller, from its own run identifier and its
\* own engine outcome.
OwnResult(launch) ==
    LET engine == launch.engineOutcome[1]
        result == engine.value
        kept == SelectSeq(result[1].payloads[1], HasText)
        reported == result[1].meta[1].agentMeta[1].usage[1]
    IN  IF engine.kind = "raised"
        THEN [ok |-> FALSE, runId |-> launch.runId[1], error |-> String(engine.value)]
        ELSE [ok |-> TRUE, runId |-> launch.runId[1],
              responseTexts |->
                  IF result = <<>> \/ result[1].payloads = <<>> THEN <<>>
                  ELSE <<[i \in 1..Len(kept) |-> TextOf(kept[i])]>>,
              usage |->
                  IF AgentUsageOf(result) = <<>> THEN <<>>
                  ELSE <<[input |-> reported.input, output |-> reported.output,
                          cacheRead |-> reported.cacheRead,
                          cacheWrite |-> reported.cacheWrite,
                          totalTokens |-> reported.total]>>]

ResultIsOwn ==
    \A l \in LaunchIds :
        launches[l].pc = "done" =>
            /\ launches[l].outcome = <<Returned(OwnResult(launches[l]))>>
            /\ \A k \in LaunchIds \ {l} :
                  launches[k].pc # "idle" =>
                      launches[l].outcome[1].value.runId # launches[k].runId[1]

OthersUntouched ==
    \A l, k \in LaunchIds :
        (l # k /\ launches'[l] # launches[l]) => launches'[k] = launches[k]

\* C17: launches that overlap are independent: the result of each is the
\* one its own run identifier and its own engine outcome give, a step of one
\* launch (its failure included) changes no other launch, and no launch
\* returns the runId of another.
C17_LaunchesAreIndependent == []ResultIsOwn /\ [][OthersUntouched]_vars

C17_Witness ==
    \E a, b \in LaunchIds :
        /\ launches[a].pc = "enginePending" /\ launches[a].runId = <<<<"uuid", 1>>>>
        /\ launches[b].pc = "done" /\ launches[b].runId = <<<<"uuid", 2>>>>
        /\ ~launches[b].outcome[1].value.ok


\* The params a call owes the tool: its own hook replacement when its own
\* verdict carries one, its own params otherwise.
OwnParams(call) ==
    IF HookReplacedParams(call) THEN call.hookOutcome[1].value[1].params[1]
    ELSE call.params

ParamsAreOwn ==
    \A c \in CallIds :
        LET call == calls[c]
        IN  ToolCall(c) =>
                /\ call.toolCallId = c
                /\ call.execArgs # <<>> =>
                      /\ ~HookBlocked(call)
                      /\ call.execArgs = <<ExpectedExecArgs(call, OwnParams(call))>>
                /\ (call.pc = "done" /\ call.execArgs = <<>>) => HookBlocked(call)

OtherCallsUntouched ==
    \A c, d \in CallIds :
        (c # d /\ calls'[c] # calls[c]) => calls'[d] = calls[d]

\* C16: the wrapper keeps no state between calls: however calls on one
\* wrapped tool overlap, execute is given the call's own params, or the
\* replacement of the call's own verdict, a call is blocked only by its own
\* verdict, and a step of one call changes no other call.
C16_CallsShareNothing == []ParamsAreOwn /\ [][OtherCallsUntouched]_vars

C16_Witness ==
    \E a, b \in CallIds :
        /\ a < b
        /\ calls[a].pc = "execPending" /\ calls[b].pc = "execPending"
        /\ calls[a].def = calls[b].def
        /\ calls[a].params = {} /\ calls[b].params = {<<"foo", "original">>}
        /\ calls[a].hookOutcome = <<[kind |-> "returned", value |-> <<>>]>>
        /\ calls[a].execArgs[1].params = {}
        /\ HookReplacedParams(calls[b])
        /\ calls[b].execArgs[1].params = {<<"bar", "modified">>}

====
